---- MODULE Spec2Model ----
(***************************************************************************)
(* HTML fragments router: the route model (createRoute, routeEquals, zip)  *)
(* and the navigation state machine of BaseRouter (navigate, its cache of  *)
(* <router-outlet> nodes, the history update and the streaming of the      *)
(* resolver's content into the outlet), with the application resolver      *)
(* Router.route that requests a route with the `fragment` query flag.      *)
(*                                                                         *)
(* Strings that are concatenated by the code (canonical route strings,     *)
(* visible addresses) are sequences of tokens, so that the parts of a      *)
(* string stay observable ("?" and "fragment" are tokens).                 *)
(***************************************************************************)
EXTENDS Integers, Sequences, FiniteSets, TLC

\* ---------------------------------------------------------------- bounds
\* Number of navigate() calls a behaviour may start.
MaxCalls == 3
\* Number of top-level nodes the content of one route has.
MaxNodes == 2
\* Number of query parameters of a route in the route-equality check.
MaxParams == 2

\* ------------------------------------------------------------ route model
Range(s) == {s[i] : i \in DOMAIN s}

\* A piece of a template string: the empty string adds nothing.
Str(s) == IF s = "" THEN <<>> ELSE <<s>>

Paths == {"/", "/streaming/"}
Hashes == {"", "#h"}
ParamNames == {"x", "y"}
ParamValues == {"1", "2"}
ParamEntries == ParamNames \X ParamValues
ParamSeqs == UNION {[1..n -> ParamEntries] : n \in 0..MaxParams}

\* createRoute: the route of a URL (pathname, searchParams, hash).
createRoute(pathname, searchParams, hash) ==
    [path |-> pathname, params |-> searchParams, hash |-> hash]

\* Every route over the bounded paths, hashes and parameter sequences.
Routes == {createRoute(p, q, h) : p \in Paths, q \in ParamSeqs, h \in Hashes}

\* URLSearchParams.toString(): name=value pairs joined by "&".
RECURSIVE paramsToString(_)
paramsToString(params) ==
    IF params = <<>> THEN <<>>
    ELSE <<params[1][1], "=", params[1][2]>>
            \o (IF Len(params) = 1 THEN <<>> ELSE <<"&">>)
            \o paramsToString(Tail(params))

\* Route.toString() that leaves the hash out.
toString_NoHash(route) ==
    LET params == paramsToString(route.params)
    IN  <<route.path>> \o (IF params = <<>> THEN <<>> ELSE <<"?">> \o params)

\* Route.toString(): path, then "?" and the parameters if any, then hash.
toString(route) ==
    LET params == paramsToString(route.params)
    IN  <<route.path>>
            \o (IF params = <<>> THEN <<>> ELSE <<"?">> \o params)
            \o Str(route.hash)

\* zip with a length check that only rejects a longer first array.
zip_OnlyLonger(first, second) ==
    IF Len(first) > Len(second)
    THEN [threw |-> TRUE, value |-> <<>>]
    ELSE [threw |-> FALSE,
          value |-> [i \in 1..Len(first) |-> <<first[i], second[i]>>]]

\* zip: throws on arrays of differing lengths, else the array of pairs.
zip(first, second) ==
    IF Len(first) # Len(second)
    THEN [threw |-> TRUE, value |-> <<>>]
    ELSE [threw |-> FALSE,
          value |-> [i \in 1..Len(first) |-> <<first[i], second[i]>>]]

\* routeEquals that compares the parameters as sets of entries.
routeEquals_Unordered(first, second) ==
    IF first.path # second.path THEN "false"
    ELSE IF first.hash # second.hash THEN "false"
    ELSE IF Len(first.params) # Len(second.params) THEN "LengthMismatch"
    ELSE IF Range(first.params) = Range(second.params) THEN "true"
    ELSE "false"

\* routeEquals that zips the parameters before it compares path and hash.
routeEquals_ZipFirst(first, second) ==
    IF zip(first.params, second.params).threw THEN "LengthMismatch"
    ELSE IF first.path # second.path THEN "false"
    ELSE IF first.hash # second.hash THEN "false"
    ELSE IF first.params = second.params THEN "true"
    ELSE "false"

\* routeEquals that compares object identity: never equal.
routeEquals_Identity(first, second) == "false"

\* routeEquals: "true", "false", or "LengthMismatch" when zip throws.
routeEquals(first, second) ==
    IF first.path # second.path THEN "false"
    ELSE IF first.hash # second.hash THEN "false"
    ELSE LET zippedParams == zip(first.params, second.params)
         IN  IF zippedParams.threw THEN "LengthMismatch"
             ELSE IF \E i \in 1..Len(zippedParams.value) :
                        \/ zippedParams.value[i][1][1] # zippedParams.value[i][2][1]
                        \/ zippedParams.value[i][1][2] # zippedParams.value[i][2][2]
                  THEN "false"
                  ELSE "true"

\* ------------------------------------------------- streaming server model
\* Number of items a generator or async generator content yields.
MaxItems == 2
\* Number of literals of a template handed to stream.
MaxLiterals == 3

\* streamLines: the text of line i.
Line(i) == ToString(i)
Lines(k) == [i \in 1..k |-> Line(i)]

\* Streamable<string>: a string, a Promise of a string (that resolves to
\* its value or rejects), a Generator or an AsyncGenerator of strings (one
\* that fails throws after its last item).
StringContent(value) ==
    [shape |-> "string", items |-> <<value>>, fails |-> FALSE]
PromiseContent(value, fails) ==
    [shape |-> "promise", items |-> <<value>>, fails |-> fails]
GeneratorContent(items) ==
    [shape |-> "generator", items |-> items, fails |-> FALSE]
AsyncGeneratorContent(items, fails) ==
    [shape |-> "asyncGenerator", items |-> items, fails |-> fails]

Contents ==
    {StringContent(value) : value \in {"", "<h2>"}}
        \cup {PromiseContent("<p>", fails) : fails \in BOOLEAN}
        \cup {GeneratorContent(Lines(k)) : k \in 0..MaxItems}
        \cup {AsyncGeneratorContent(Lines(k), fails) :
                k \in 0..MaxItems, fails \in BOOLEAN}

\* `yield* content`: every item of the sequence is re-yielded in turn.
RECURSIVE yieldEach(_, _)
yieldEach(out, items) ==
    IF items = <<>> THEN out
    ELSE yieldEach(Append(out, Head(items)), Tail(items))

\* normalize that completes without an item when the promise rejects.
normalize_Swallow(content) ==
    IF content.shape \in {"string", "promise"}
    THEN [items |-> IF content.fails THEN <<>> ELSE <<content.items[1]>>,
          threw |-> FALSE]
    ELSE [items |-> yieldEach(<<>>, content.items), threw |-> content.fails]

\* normalize: the items the async generator yields and whether it throws.
\* A string or a Promise is awaited and yielded as one item; a Generator or
\* an AsyncGenerator is delegated to with `yield*`.
normalize(content) ==
    IF content.shape \in {"string", "promise"}
    THEN IF content.fails
         THEN [items |-> <<>>, threw |-> TRUE]
         ELSE [items |-> <<content.items[1]>>, threw |-> FALSE]
    ELSE [items |-> yieldEach(<<>>, content.items), threw |-> content.fails]

\* interleave that leaves out the empty literals.
interleave_SkipEmpty(literals, expressions) ==
    LET RECURSIVE from(_)
        from(index) ==
            IF index > Len(literals) THEN <<>>
            ELSE (IF literals[index] = "" THEN <<>>
                  ELSE <<StringContent(literals[index])>>)
                 \o (IF index <= Len(expressions)
                     THEN <<expressions[index]>> ELSE <<>>)
                 \o from(index + 1)
    IN  from(1)

\* interleave that yields the expression of a position before its literal.
interleave_ExpressionFirst(literals, expressions) ==
    LET RECURSIVE from(_)
        from(index) ==
            IF index > Len(literals) THEN <<>>
            ELSE (IF index <= Len(expressions)
                  THEN <<expressions[index]>> ELSE <<>>)
                 \o <<StringContent(literals[index])>>
                 \o from(index + 1)
    IN  from(1)

\* interleave: every literal, each followed by the expression of the same
\* position when there is one. A literal is a string Streamable.
interleave(literals, expressions) ==
    LET RECURSIVE from(_)
        from(index) ==
            IF index > Len(literals) THEN <<>>
            ELSE <<StringContent(literals[index])>>
                 \o (IF index <= Len(expressions)
                     THEN <<expressions[index]>> ELSE <<>>)
                 \o from(index + 1)
    IN  from(1)

\* The loop of stream: `yield* normalize(value)` for every value in turn,
\* ended by the first value whose normalization throws.
RECURSIVE streamEach(_, _)
streamEach(out, values) ==
    IF values = <<>> THEN [items |-> out, threw |-> FALSE]
    ELSE LET o == normalize(Head(values))
         IN  IF o.threw THEN [items |-> out \o o.items, threw |-> TRUE]
             ELSE streamEach(out \o o.items, Tail(values))

\* stream`...`: the items of a template and whether it throws.
stream(literals, expressions) ==
    streamEach(<<>>, interleave(literals, expressions))

\* The literals of the page template: the text before the content of
\* <router-outlet>, which holds the <head>, and the text after it.
PageLiterals == <<"<head>", "</html>">>

\* wrapContent that returns the content as it is, without the page.
wrapContent_Bare(req, content) == content

\* wrapContent: an async generator that delegates to the page template
\* around the content.
wrapContent(req, content) ==
    LET page == stream(PageLiterals, <<content>>)
    IN  AsyncGeneratorContent(page.items, page.threw)

\* TextEncoder.encode: the bytes of a string.
encode(value) == [bytes |-> value]

\* searchParams.get(name) taken as a boolean: an empty value is no flag.
searchParamsHas_Truthy(params, name) ==
    \E i \in 1..Len(params) : params[i][1] = name /\ params[i][2] # ""

\* URLSearchParams.has
searchParamsHas(params, name) ==
    \E i \in 1..Len(params) : params[i][1] = name

\* The keys of the routes map the application server is built from.
HandledPaths == {"/", "/streaming/"}

\* this.routes.get(url.pathname)
routesGet(pathname) ==
    IF pathname \in HandledPaths THEN "handler" ELSE "undefined"

\* `await handler(req)` that resolves: a Promise gives its value, any other
\* content is itself.
awaitContent(content) ==
    IF content.shape = "promise" THEN StringContent(content.items[1])
    ELSE content

\* A request forwarded as a new GET request of the same URL.
fetchRequest_Get(req) == [req EXCEPT !.method = "GET"]

\* fetch(req): the request the origin receives.
fetchRequest(req) == req

\* A response without headers.
serveHeaders_None == <<>>

\* headers: { 'Content-Type': 'text/html' }
serveHeaders == <<<<"Content-Type", "text/html">>>>

\* No content, no request, no response yet.
NoContent == [shape |-> "none", items |-> <<>>, fails |-> FALSE]
NoResponse == [headers |-> <<>>, body |-> "none"]

\* ------------------------------------------------------- navigation model
\* The routes the navigation triggers choose from.
\* Home and HomeX differ in the number of parameters only; Streaming and
\* StreamingH have lazily streamed content and differ in the hash only.
Home == createRoute("/", <<>>, "")
HomeX == createRoute("/", <<<<"x", "1">>>>, "")
Streaming == createRoute("/streaming/", <<>>, "")
StreamingH == createRoute("/streaming/", <<>>, "#h")
NavRoutes == {Home, HomeX, Streaming, StreamingH}

\* null: no element / no map entry.
NoOutlet == -1

\* Outlet 0 is the outlet of the served document, outlet n the one created
\* by the n-th navigate call.
OutletIds == 0..MaxCalls

CacheKeys == {toString(r) : r \in NavRoutes}

ContentTypes == {"text/html", "text/html; charset=utf-8", "application/json"}

\* A Content-Type test that accepts every text/html media type.
contentTypeOk_MediaType(contentType) ==
    contentType \in {"text/html", "text/html; charset=utf-8"}

\* Router.route: `contentType !== 'text/html'` throws.
contentTypeOk(contentType) == contentType = "text/html"

VARIABLES
    currentRoute,   \* module-level currentRoute
    address,        \* visible address (location), token sequence
    fragmentCache,  \* BaseRouter.fragmentCache: key -> outlet or NoOutlet
    outlets,        \* <router-outlet> elements inside the router, in order
    children,       \* child nodes of every outlet, attached or detached
    calls,          \* the navigate() calls started so far
    eqFirst,        \* routeEquals check: first route
    eqSecond,       \* routeEquals check: second route
    eqOut,          \* routeEquals check: outcomes
    literals,       \* stream check: the literals of the template
    expressions,    \* stream check: the interpolated Streamable values
    normalizeOut,   \* stream check: normalize of every expression
    streamOut,      \* stream check: stream of the template
    srv,            \* ServiceWorkerServer.serve: the call and its response
    clickEvt        \* the last click event onDescendantClicked has handled

vars == <<currentRoute, address, fragmentCache, outlets, children, calls,
          eqFirst, eqSecond, eqOut,
          literals, expressions, normalizeOut, streamOut, srv, clickEvt>>
navVars == <<currentRoute, address, fragmentCache, outlets, children, calls>>
eqVars == <<eqFirst, eqSecond, eqOut>>
serverVars == <<literals, expressions, normalizeOut, streamOut, srv>>
clickVars == <<clickEvt>>

\* No click event handled yet.
NoClick == [node |-> "none", tagName |-> "", href |-> "null",
            defaultPrevented |-> FALSE, outcome |-> "none"]

\* No serve call yet.
NoRequest == [url |-> [path |-> "", params |-> <<>>, hash |-> ""],
              method |-> ""]
IdleServe ==
    [pc |-> "idle", from |-> "none", route |-> Home, req |-> NoRequest,
     handlerCalls |-> 0, content |-> NoContent, wrapArgs |-> <<>>,
     res |-> NoContent, forwarded |-> <<>>, response |-> NoResponse,
     stream |-> "none", body |-> <<>>]
\* normalize and stream not applied yet.
NotNormalized == [done |-> FALSE, each |-> <<>>]
NotStreamed == [done |-> FALSE, items |-> <<>>, threw |-> FALSE]
\* The server has served nothing and no template has been streamed.
ServerUnused ==
    /\ literals = <<"">>
    /\ expressions = <<>>
    /\ normalizeOut = NotNormalized
    /\ streamOut = NotStreamed
    /\ srv = IdleServe

\* querySelector whose result is taken to be an element.
querySelector_Assumed(os) == IF os = <<>> THEN 0 ELSE os[1]

\* Element.querySelector('router-outlet'): first outlet in the router.
querySelector(os) == IF os = <<>> THEN NoOutlet ELSE os[1]

\* replaceWith that only removes the old node.
replaceWith_Remove(os, old, new) == SelectSeq(os, LAMBDA x : x # old)

\* replaceWith that inserts the new node and leaves the old one in place.
replaceWith_Keep(os, old, new) ==
    IF old \notin Range(os) \/ old = new THEN os ELSE <<new>> \o os

\* ChildNode.replaceWith: nothing for a node without parent; else the new
\* node is removed from where it is and takes the place of the old one.
replaceWith(os, old, new) ==
    IF old \notin Range(os) THEN os
    ELSE LET rest == SelectSeq(os, LAMBDA x : x = old \/ x # new)
         IN  [i \in 1..Len(rest) |-> IF rest[i] = old THEN new ELSE rest[i]]

\* Map.set on a map that holds one entry only: the others are evicted.
mapSet_Evict(map, key, value) ==
    [k \in DOMAIN map |-> IF k = key THEN value ELSE NoOutlet]

\* Map.set that drops the entry.
mapSet_Noop(map, key, value) == map

\* Map.set
mapSet(map, key, value) == [map EXCEPT ![key] = value]

\* Map.get that looks under a key that is never there.
mapGet_Miss(map, key) == NoOutlet

\* Map.get (undefined is NoOutlet)
mapGet(map, key) == map[key]

\* history update written with the canonical route string.
historyUpdate_Canonical(route) ==
    [method |-> "replaceState", url |-> toString(route)]

\* history update that pushes a new entry.
historyUpdate_Push(route) ==
    [method |-> "pushState", url |-> <<route.path>> \o Str(route.hash)]

\* history.replaceState(undefined, '', `${route.path}${route.hash}`)
historyUpdate(route) ==
    [method |-> "replaceState", url |-> <<route.path>> \o Str(route.hash)]

\* URLSearchParams.set(name, value): the first entry of that name takes the
\* value and the others of that name are removed; else a new last entry.
searchParamsSet(params, name, value) ==
    IF \E i \in 1..Len(params) : params[i][1] = name
    THEN LET first == CHOOSE i \in 1..Len(params) :
                        /\ params[i][1] = name
                        /\ \A j \in 1..(i-1) : params[j][1] # name
             marked == [i \in 1..Len(params) |->
                          IF i = first THEN <<name, value, "keep">>
                          ELSE IF params[i][1] = name
                               THEN <<name, value, "drop">>
                               ELSE <<params[i][1], params[i][2], "keep">>]
             kept == SelectSeq(marked, LAMBDA e : e[3] = "keep")
         IN  [i \in 1..Len(kept) |-> <<kept[i][1], kept[i][2]>>]
    ELSE Append(params, <<name, value>>)

\* Router.route up to `await fetch(url)`: the request for the route.
routeRequest(route) ==
    [path |-> route.path,
     params |-> searchParamsSet(route.params, "fragment", ""),
     hash |-> route.hash]

\* Router.route: a lazy node sequence for /streaming/, else a fragment.
contentKind(route) ==
    IF route.path = "/streaming/" THEN "generator" ELSE "fragment"

\* Node.append that inserts the node first.
append_Prepend(nodes, node) == <<node>> \o nodes

\* newOutlet.append(node)
append(nodes, node) == Append(nodes, node)

\* The i-th node a call's content produces.
Node(n, i) == <<n, i>>

\* The child nodes of the fragment the resolver returned to call n.
childNodes(n, k) == [i \in 1..k |-> Node(n, i)]

\* `for await (const node of nodes) newOutlet.append(node)` over nodes
\* that are all there: normalize yields a fragment's children one by one,
\* without waiting for anything, and each is appended in turn.
RECURSIVE appendEach(_, _)
appendEach(content, nodes) ==
    IF nodes = <<>> THEN content
    ELSE appendEach(append(content, Head(nodes)), Tail(nodes))

\* navigate() from its entry to its first suspension point or return.
navigateSync(route, prevRoute, cache, os) ==
    LET base == [pc |-> "returnedNoOp", eq |-> "true", hist |-> <<>>,
                 cache |-> cache, outlets |-> os, oldOutlet |-> NoOutlet,
                 cachedOutlet |-> NoOutlet, requests |-> <<>>]
        eq == routeEquals(prevRoute, route)
        hist == <<historyUpdate(route)>>
        oldOutlet == querySelector(os)
        cache1 == mapSet(cache, toString(prevRoute), oldOutlet)
        cachedOutlet == mapGet(cache1, toString(route))
    IN  IF eq = "true" THEN base
        ELSE IF eq = "LengthMismatch"
        THEN [base EXCEPT !.pc = "threwZip", !.eq = eq]
        ELSE IF oldOutlet = NoOutlet
        THEN [base EXCEPT !.pc = "threwNoOutlet", !.eq = eq, !.hist = hist]
        ELSE IF cachedOutlet # NoOutlet
        THEN [base EXCEPT !.pc = "returnedCached", !.eq = eq, !.hist = hist,
                          !.cache = cache1, !.oldOutlet = oldOutlet,
                          !.cachedOutlet = cachedOutlet,
                          !.outlets = replaceWith(os, oldOutlet, cachedOutlet)]
        ELSE [base EXCEPT !.pc = "awaitRoute", !.eq = eq, !.hist = hist,
                          !.cache = cache1, !.oldOutlet = oldOutlet,
                          !.requests = <<routeRequest(route)>>]

\* navigate(route), run by a trigger that leaves the address at addr.
Navigate(route, addr) ==
    LET prevRoute == currentRoute
        r == navigateSync(route, prevRoute, fragmentCache, outlets)
    IN  /\ Len(calls) < MaxCalls
        /\ currentRoute' = route
        /\ address' = IF r.hist = <<>> THEN addr ELSE r.hist[Len(r.hist)].url
        /\ fragmentCache' = r.cache
        /\ outlets' = r.outlets
        /\ children' = children
        /\ calls' = Append(calls,
                [route |-> route, prevRoute |-> prevRoute,
                 pc |-> r.pc, eq |-> r.eq, hist |-> r.hist,
                 oldOutlet |-> r.oldOutlet, cachedOutlet |-> r.cachedOutlet,
                 newOutlet |-> NoOutlet, requests |-> r.requests,
                 contentType |-> "none", kind |-> "none", total |-> 0,
                 produced |-> <<>>])
        /\ UNCHANGED <<eqVars, serverVars>>

\* onDescendantClicked on an <a href>: navigate to the href's route.
Click(route) == Navigate(route, address) /\ UNCHANGED clickVars

\* onRouteChange: the platform has moved the location, navigate to it.
PopState(route) == Navigate(route, toString(route)) /\ UNCHANGED clickVars

\* `await this.route(currentRoute)` rejects: fetch failed.
FetchRejected(n) ==
    /\ n \in 1..Len(calls)
    /\ calls[n].pc = "awaitRoute"
    /\ calls' = [calls EXCEPT ![n].pc = "threwFetch"]
    /\ UNCHANGED <<currentRoute, address, fragmentCache, outlets, children>>
    /\ UNCHANGED <<eqVars, serverVars, clickVars>>

\* The response arrives. Router.route checks its Content-Type and returns
\* the content; navigate creates the new outlet and splices it in place of
\* oldOutlet. The k children of a fragment are appended in the same turn of
\* the event loop and navigate returns; for a lazy node sequence navigate
\* suspends in the `for await` loop.
RouteResponded(n, contentType, k) ==
    /\ n \in 1..Len(calls)
    /\ calls[n].pc = "awaitRoute"
    /\ IF ~contentTypeOk(contentType)
       THEN /\ k = 0
            /\ calls' = [calls EXCEPT ![n].pc = "threwContentType",
                                      ![n].contentType = contentType]
            /\ UNCHANGED <<outlets, children>>
       ELSE LET kind == contentKind(calls[n].route)
                nodes == IF kind = "fragment" THEN childNodes(n, k) ELSE <<>>
            IN  /\ (kind = "generator") => (k = 0)
                /\ calls' = [calls EXCEPT
                        ![n].pc = IF kind = "fragment" THEN "returned"
                                  ELSE "streaming",
                        ![n].contentType = contentType,
                        ![n].kind = kind,
                        ![n].total = k,
                        ![n].newOutlet = n,
                        ![n].produced = nodes]
                /\ outlets' = replaceWith(outlets, calls[n].oldOutlet, n)
                /\ children' = [children EXCEPT ![n] = appendEach(<<>>, nodes)]
    /\ UNCHANGED <<currentRoute, address, fragmentCache>>
    /\ UNCHANGED <<eqVars, serverVars, clickVars>>

\* One iteration of `for await (const node of nodes)` over a lazy node
\* sequence: its next node arrives and is appended to the call's outlet.
StreamNext(n) ==
    /\ n \in 1..Len(calls)
    /\ calls[n].pc = "streaming"
    /\ Len(calls[n].produced) < MaxNodes
    /\ LET node == Node(n, Len(calls[n].produced) + 1)
       IN  /\ calls' = [calls EXCEPT ![n].produced = Append(@, node)]
           /\ children' = [children EXCEPT
                             ![calls[n].newOutlet] = append(@, node)]
    /\ UNCHANGED <<currentRoute, address, fragmentCache, outlets>>
    /\ UNCHANGED <<eqVars, serverVars, clickVars>>

\* The lazy node sequence ends: the loop ends and navigate returns.
StreamDone(n) ==
    /\ n \in 1..Len(calls)
    /\ calls[n].pc = "streaming"
    /\ calls' = [calls EXCEPT ![n].pc = "returned"]
    /\ UNCHANGED <<currentRoute, address, fragmentCache, outlets, children>>
    /\ UNCHANGED <<eqVars, serverVars, clickVars>>

\* The lazy node sequence fails while it is iterated.
StreamFailed(n) ==
    /\ n \in 1..Len(calls)
    /\ calls[n].pc = "streaming"
    /\ calls' = [calls EXCEPT ![n].pc = "threwStream"]
    /\ UNCHANGED <<currentRoute, address, fragmentCache, outlets, children>>
    /\ UNCHANGED <<eqVars, serverVars, clickVars>>

\* The router is constructed on the served document of the home route, with
\* or without a <router-outlet> in it.
Init ==
    /\ currentRoute = Home
    /\ address = toString(currentRoute)
    /\ fragmentCache = [key \in CacheKeys |-> NoOutlet]
    /\ outlets \in {<<>>, <<0>>}
    /\ children = [o \in OutletIds |-> <<>>]
    /\ calls = <<>>
    /\ eqFirst = Home
    /\ eqSecond = Home
    /\ eqOut = [ab |-> "none", ba |-> "none", aa |-> "none"]
    /\ ServerUnused
    /\ clickEvt = NoClick

Next ==
    \/ \E route \in NavRoutes : Click(route)
    \/ \E route \in NavRoutes : PopState(route)
    \/ \E n \in 1..MaxCalls : FetchRejected(n)
    \/ \E n \in 1..MaxCalls, ct \in ContentTypes, k \in 0..MaxNodes :
            RouteResponded(n, ct, k)
    \/ \E n \in 1..MaxCalls : StreamNext(n)
    \/ \E n \in 1..MaxCalls : StreamDone(n)
    \/ \E n \in 1..MaxCalls : StreamFailed(n)

Spec == Init /\ [][Next]_vars

\* ------------------------------------------------ claims on navigation
\* The step starts a navigate call.
Starts == Len(calls') = Len(calls) + 1
\* The call the step starts.
Started == calls'[Len(calls')]
\* `${path}${hash}` of a route, written out.
PathHash(route) == IF route.hash = "" THEN <<route.path>>
                   ELSE <<route.path, route.hash>>
\* The call went past the point where the old outlet is cached.
Cached(c) == c.pc \notin {"returnedNoOp", "threwZip", "threwNoOutlet"}

\* C1: a navigate that finds the destination's canonical string in the
\* cache puts that very outlet node in place of the live outlet and returns
\* without a request to the resolver and without touching any outlet's
\* content; a route that was left before is revisited without a request.
C1_CacheHitReusesOutlet ==
    [][Starts =>
        LET c == Started
            key == toString(c.route)
        IN  /\ (/\ c.route # currentRoute
                /\ c.pc # "threwZip"
                /\ outlets # <<>>
                /\ fragmentCache'[key] # NoOutlet)
               => /\ c.pc = "returnedCached"
                  /\ outlets' = <<fragmentCache'[key]>>
                  /\ c.cachedOutlet = fragmentCache'[key]
                  /\ c.requests = <<>>
                  /\ c.newOutlet = NoOutlet
                  /\ children' = children
            /\ (\E j \in 1..Len(calls) :
                    Cached(calls[j]) /\ calls[j].prevRoute = c.route)
               => c.requests = <<>>
    ]_vars

\* C1 witness: A -> B -> A, B's content fetched, A shown again from cache.
C1_Witness ==
    \E j, n \in 1..Len(calls) :
        /\ j < n
        /\ calls[j].pc \in {"streaming", "returned"}
        /\ calls[n].pc = "returnedCached"
        /\ calls[n].route = calls[j].prevRoute
        /\ calls[n].prevRoute = calls[j].route
        /\ outlets = <<calls[n].cachedOutlet>>
        /\ calls[n].cachedOutlet = calls[j].oldOutlet

\* C2 (as claimed): the nodes of a call's content are in that call's outlet
\* only, in production order, whether the outlet is attached or not; and
\* when the user navigates away from route r while a call is streaming r's
\* content into its outlet, that outlet is the one cached under r, so that
\* a later visit of r reattaches it.
C2_AbandonedStreamOutletCached ==
    [][/\ \A m \in 1..Len(calls) :
            calls[m].newOutlet # NoOutlet =>
                /\ children[calls[m].newOutlet] = calls[m].produced
                /\ \A o \in OutletIds \ {calls[m].newOutlet} :
                        Range(children[o]) \cap Range(calls[m].produced) = {}
       /\ (Starts /\ Cached(Started)) =>
            \A m \in 1..Len(calls) :
                (calls[m].pc = "streaming" /\ calls[m].route = currentRoute)
                    => fragmentCache'[toString(currentRoute)]
                            = calls[m].newOutlet
    ]_vars

\* C3: navigate to the route that is the current route changes nothing:
\* no history update, no request, same outlets, same cache, same route.
C3_SameRouteIsNoOp ==
    [][(Starts /\ Started.route = currentRoute) =>
        /\ Started.pc = "returnedNoOp"
        /\ Started.hist = <<>>
        /\ Started.requests = <<>>
        /\ address' \in {address, toString(currentRoute)}
        /\ currentRoute' = currentRoute
        /\ fragmentCache' = fragmentCache
        /\ outlets' = outlets
        /\ children' = children
    ]_vars

\* C3 witness: after a navigation that fetched content, a navigate to the
\* route then current has returned at the equality check.
C3_Witness ==
    \E j, n \in 1..Len(calls) :
        /\ j < n
        /\ calls[j].pc = "returned"
        /\ calls[n].pc = "returnedNoOp"
        /\ calls[n].route = calls[n].prevRoute
        /\ calls[n].route = calls[j].route

\* C4: the outlet a call created holds exactly the nodes its content has
\* produced so far, each once and in production order, and no outlet holds
\* a node of another call; the nodes already there stay where they are; a
\* step of a lazy sequence appends one node; and the call of a fragment
\* returns with all the fragment's children appended.
C4_AppendedInProductionOrder ==
    [][\A n \in 1..Len(calls') :
        LET c == calls'[n]
            o == c.newOutlet
        IN  o # NoOutlet =>
              /\ c.produced = [i \in 1..Len(c.produced) |-> Node(n, i)]
              /\ children'[o] = c.produced
              /\ \A p \in OutletIds \ {o} :
                    Range(children'[p]) \cap Range(c.produced) = {}
              /\ Len(children'[o]) >= Len(children[o])
              /\ \A i \in 1..Len(children[o]) : children'[o][i] = children[o][i]
              /\ (c.kind = "generator")
                    => Len(children'[o]) <= Len(children[o]) + 1
              /\ (c.kind = "fragment")
                    => (c.pc = "returned" /\ Len(children'[o]) = c.total)
    ]_vars

\* C4 witness: a fragment and a lazy sequence have both delivered MaxNodes
\* nodes, at least two, into their outlets.
C4_Witness ==
    \E m, n \in 1..Len(calls) :
        /\ calls[m].kind = "fragment"
        /\ calls[n].kind = "generator"
        /\ calls[m].pc = "returned"
        /\ calls[n].pc = "returned"
        /\ Len(children[calls[m].newOutlet]) = MaxNodes
        /\ Len(children[calls[n].newOutlet]) = MaxNodes
        /\ MaxNodes >= 2

\* C5 (as claimed): while the latest call's request is pending, its new
\* empty outlet is already the live outlet.
C5_OutletSplicedBeforeRequest ==
    (calls # <<>> /\ calls[Len(calls)].pc = "awaitRoute") =>
        /\ calls[Len(calls)].newOutlet # NoOutlet
        /\ outlets = <<calls[Len(calls)].newOutlet>>

\* C5 (amended): on a cache miss navigate first requests the content and
\* leaves the document as it is; while the request is pending the call has
\* no new outlet; when the resolver has returned, the step that starts the
\* loop creates the empty outlet and puts it in place of the old outlet if
\* that is still attached, and changes nothing in the document otherwise.
C5_OutletSplicedAfterResolve ==
    [][/\ (Starts /\ Started.pc = "awaitRoute") =>
            /\ outlets' = outlets
            /\ children' = children
            /\ Len(Started.requests) = 1
       /\ \A n \in 1..Len(calls) :
            /\ calls[n].pc = "awaitRoute" =>
                /\ calls[n].newOutlet = NoOutlet
                /\ n \notin Range(outlets)
            /\ (calls[n].pc = "awaitRoute" /\ calls'[n].pc = "streaming") =>
                /\ calls'[n].newOutlet = n
                /\ children'[n] = <<>>
                /\ outlets' = IF calls[n].oldOutlet \in Range(outlets)
                              THEN <<n>> ELSE outlets
    ]_vars

\* C5 witness: the latest call's request is pending and the live outlet is
\* still the old one.
C5_Witness ==
    /\ calls # <<>>
    /\ calls[Len(calls)].pc = "awaitRoute"
    /\ outlets = <<calls[Len(calls)].oldOutlet>>
    /\ calls[Len(calls)].newOutlet = NoOutlet

\* The step in which call n fails with an upstream failure.
FailsUpstream(n) ==
    /\ calls[n].pc \in {"awaitRoute", "streaming"}
    /\ calls'[n].pc \in {"threwFetch", "threwStream"}

\* C6 (as claimed): when the latest call fails with an upstream failure, its
\* new outlet is attached in place of the old one, the address is the
\* destination's path+hash and the current route is the destination.
C6_FailureLeavesNewOutlet ==
    [][\A n \in 1..Len(calls) :
        (FailsUpstream(n) /\ n = Len(calls)) =>
            /\ calls'[n].newOutlet # NoOutlet
            /\ calls'[n].newOutlet \in Range(outlets')
            /\ calls'[n].oldOutlet \notin Range(outlets')
            /\ address' = PathHash(calls[n].route)
            /\ currentRoute' = calls[n].route
    ]_vars

\* C6 (amended): an upstream failure ends the call after its single
\* request. If the fetch is rejected no new outlet exists and the failing
\* step leaves document and cache alone; if the lazy content fails the
\* call's outlet exists and holds the nodes produced before the failure.
\* The call has replaced the history entry by path+hash once, and if no
\* later navigate has started the address is that path+hash and the
\* current route is the destination.
C6_FailureAfterStart ==
    [][\A n \in 1..Len(calls) :
        FailsUpstream(n) =>
            LET c == calls'[n]
            IN  /\ Len(c.requests) = 1
                /\ c.hist = <<[method |-> "replaceState",
                               url |-> PathHash(c.route)]>>
                /\ outlets' = outlets
                /\ children' = children
                /\ fragmentCache' = fragmentCache
                /\ (c.pc = "threwFetch") =>
                        /\ c.newOutlet = NoOutlet
                        /\ n \notin Range(outlets')
                /\ (c.pc = "threwStream") =>
                        /\ c.newOutlet = n
                        /\ children'[n] = c.produced
                /\ (n = Len(calls)) =>
                        /\ address' = PathHash(c.route)
                        /\ currentRoute' = c.route
    ]_vars

\* C6 witness: one call failed in the stream and left its partly filled
\* outlet live; the latest call then failed at the fetch, with that outlet
\* still live and the route and address already the destination's.
C6_Witness ==
    \E m, n \in 1..Len(calls) :
        /\ calls[m].pc = "threwStream"
        /\ children[m] # <<>>
        /\ calls[n].pc = "threwFetch"
        /\ n = Len(calls)
        /\ outlets = <<m>>
        /\ calls[n].oldOutlet = m
        /\ currentRoute = calls[n].route
        /\ address = PathHash(calls[n].route)

\* C7: in every state a navigation trigger can observe, every call that
\* passed the equality check and found an outlet has replaced the history
\* entry and has its previous route in the cache, the latest such call with
\* the outlet it found; and the step that starts such a call sets the
\* current route, the address and the cache entry together.
C7_RouteHistoryCacheBeforeSuspension ==
    [][/\ \A n \in 1..Len(calls') :
            Cached(calls'[n]) =>
                /\ Len(calls'[n].hist) = 1
                /\ calls'[n].oldOutlet # NoOutlet
                /\ fragmentCache'[toString(calls'[n].prevRoute)] # NoOutlet
                /\ (n = Len(calls')) =>
                        /\ currentRoute' = calls'[n].route
                        /\ fragmentCache'[toString(calls'[n].prevRoute)]
                                = calls'[n].oldOutlet
       /\ (Starts /\ Cached(Started)) =>
            /\ currentRoute' = Started.route
            /\ address' = PathHash(Started.route)
            /\ fragmentCache'[toString(currentRoute)] = outlets[1]
    ]_vars

\* C7 witness: the latest call is suspended on the resolver, the current
\* route is its destination and the previous route's outlet is cached.
C7_Witness ==
    /\ calls # <<>>
    /\ calls[Len(calls)].pc = "awaitRoute"
    /\ currentRoute = calls[Len(calls)].route
    /\ address = PathHash(currentRoute)
    /\ fragmentCache[toString(calls[Len(calls)].prevRoute)]
            = calls[Len(calls)].oldOutlet
    /\ calls[Len(calls)].oldOutlet # NoOutlet

\* C8: a call writes the address only by replaceState, with the
\* destination's path followed by its hash, in which no "?", no parameter
\* and no fragment flag occurs: once if the routes compared unequal, never
\* otherwise; and after the latest call's write the address is that value.
C8_HistoryReplacePathHash ==
    \A n \in 1..Len(calls) :
        LET c == calls[n]
        IN  /\ Len(c.hist) = IF c.eq = "false" THEN 1 ELSE 0
            /\ (c.route # c.prevRoute /\ c.pc # "threwZip") => Len(c.hist) = 1
            /\ \A i \in 1..Len(c.hist) :
                /\ c.hist[i].method = "replaceState"
                /\ c.hist[i].url = PathHash(c.route)
                /\ Range(c.hist[i].url) \cap
                        ({"?", "=", "&", "fragment"}
                            \cup ParamNames \cup ParamValues) = {}
                /\ (n = Len(calls)) => address = c.hist[i].url

\* C8 witness: a call to a route with query parameters and one to a route
\* with a hash have each replaced the history entry.
C8_Witness ==
    \E m, n \in 1..Len(calls) :
        /\ calls[m].route.params # <<>>
        /\ calls[m].hist # <<>>
        /\ calls[n].route.hash # ""
        /\ calls[n].hist # <<>>
        /\ n = Len(calls)
        /\ address = <<calls[n].route.path, calls[n].route.hash>>

\* C9: a navigate to another route that finds no outlet in the router
\* fails with the configuration error: no request is made and the cache is
\* unchanged, while the current route and the address are the destination's.
C9_NoOutletFails ==
    [][(/\ Starts
        /\ outlets = <<>>
        /\ Started.route # currentRoute
        /\ Started.pc # "threwZip") =>
            /\ Started.pc = "threwNoOutlet"
            /\ Started.requests = <<>>
            /\ fragmentCache' = fragmentCache
            /\ outlets' = outlets
            /\ children' = children
            /\ currentRoute' = Started.route
            /\ address' = PathHash(Started.route)
    ]_vars

\* C9 witness: a call has failed for want of an outlet.
C9_Witness ==
    \E n \in 1..Len(calls) :
        /\ calls[n].pc = "threwNoOutlet"
        /\ outlets = <<>>
        /\ calls[n].hist # <<>>
        /\ \A key \in CacheKeys : fragmentCache[key] = NoOutlet

\* ------------------------------------------------- route equality checks
InitEq ==
    /\ eqFirst \in Routes
    /\ eqSecond \in Routes
    /\ eqOut = [ab |-> "none", ba |-> "none", aa |-> "none"]
    /\ currentRoute = Home
    /\ address = toString(Home)
    /\ fragmentCache = [key \in CacheKeys |-> NoOutlet]
    /\ outlets = <<0>>
    /\ children = [o \in OutletIds |-> <<>>]
    /\ calls = <<>>
    /\ ServerUnused
    /\ clickEvt = NoClick

\* routeEquals applied to the two routes in both orders and to the first
\* route and itself.
Compare ==
    /\ eqOut.ab = "none"
    /\ eqOut' = [ab |-> routeEquals(eqFirst, eqSecond),
                 ba |-> routeEquals(eqSecond, eqFirst),
                 aa |-> routeEquals(eqFirst, eqFirst)]
    /\ UNCHANGED <<eqFirst, eqSecond>>
    /\ UNCHANGED <<navVars, serverVars, clickVars>>

NextEq == Compare

SpecEq == InitEq /\ [][NextEq]_vars

\* C10: routeEquals is reflexive and symmetric: a route compared with
\* itself is equal, and the two orders of a comparison have the same
\* outcome, the same boolean or the failure in both.
C10_EqualsReflexiveSymmetric ==
    eqOut.ab # "none" =>
        /\ eqOut.aa = "true"
        /\ eqOut.ab = eqOut.ba

\* C10 witness: two routes of the same path and hash whose parameter
\* sequences differ in length: the comparison fails in both orders.
C10_Witness ==
    /\ eqOut.ab = "LengthMismatch"
    /\ eqOut.ba = "LengthMismatch"
    /\ eqOut.aa = "true"
    /\ Len(eqFirst.params) < Len(eqSecond.params)

\* C11: for two routes whose parameter sequences have the same length,
\* routeEquals is true exactly when the paths are equal, the hashes are
\* equal and the parameters are equal entry by entry, in order; it does not
\* fail for such routes.
C11_EqualsPairwiseInOrder ==
    (eqOut.ab # "none" /\ Len(eqFirst.params) = Len(eqSecond.params)) =>
        /\ eqOut.ab \in {"true", "false"}
        /\ (eqOut.ab = "true") <=>
               /\ eqFirst.path = eqSecond.path
               /\ eqFirst.hash = eqSecond.hash
               /\ \A i \in 1..Len(eqFirst.params) :
                      /\ eqFirst.params[i][1] = eqSecond.params[i][1]
                      /\ eqFirst.params[i][2] = eqSecond.params[i][2]

\* C11 witness: same path and hash, the same two parameters in the other
\* order: the routes are not equal.
C11_Witness ==
    /\ eqOut.ab = "false"
    /\ eqFirst.path = eqSecond.path
    /\ eqFirst.hash = eqSecond.hash
    /\ Len(eqFirst.params) = 2
    /\ Len(eqSecond.params) = 2
    /\ eqFirst.params[1] # eqFirst.params[2]
    /\ eqSecond.params = <<eqFirst.params[2], eqFirst.params[1]>>

\* C12 as claimed: whenever the parameter sequences differ in length the
\* comparison fails with the length mismatch, whatever the paths and
\* hashes are.
C12_LengthMismatchAlways ==
    (eqOut.ab # "none" /\ Len(eqFirst.params) # Len(eqSecond.params)) =>
        eqOut.ab = "LengthMismatch"

\* C12: when the parameter sequences differ in length, the comparison
\* fails with the length mismatch exactly when the paths are equal and the
\* hashes are equal; when the paths or the hashes differ it returns false
\* without comparing the parameters.
C12_LengthMismatchSamePathHash ==
    (eqOut.ab # "none" /\ Len(eqFirst.params) # Len(eqSecond.params)) =>
        IF eqFirst.path = eqSecond.path /\ eqFirst.hash = eqSecond.hash
        THEN eqOut.ab = "LengthMismatch"
        ELSE eqOut.ab = "false"

\* C12 witness: parameter sequences of different lengths on routes of
\* different paths: the comparison returns false.
C12_Witness ==
    /\ eqOut.ab = "false"
    /\ Len(eqFirst.params) # Len(eqSecond.params)
    /\ eqFirst.path # eqSecond.path
    /\ eqFirst.hash = eqSecond.hash

\* ------------------------------------------------ stream normalization
LiteralValues == {"", "<html>"}

\* A template of 1..MaxLiterals literals with one expression between every
\* two literals, each expression any Streamable.
InitNorm ==
    /\ literals \in UNION {[1..n -> LiteralValues] : n \in 1..MaxLiterals}
    /\ expressions \in [1..(Len(literals) - 1) -> Contents]
    /\ normalizeOut = NotNormalized
    /\ streamOut = NotStreamed
    /\ srv = IdleServe
    /\ clickEvt = NoClick
    /\ currentRoute = Home
    /\ address = toString(Home)
    /\ fragmentCache = [key \in CacheKeys |-> NoOutlet]
    /\ outlets = <<0>>
    /\ children = [o \in OutletIds |-> <<>>]
    /\ calls = <<>>
    /\ eqFirst = Home
    /\ eqSecond = Home
    /\ eqOut = [ab |-> "none", ba |-> "none", aa |-> "none"]

\* normalize applied to every expression and iterated to its end.
Normalize ==
    /\ ~normalizeOut.done
    /\ normalizeOut' =
          [done |-> TRUE,
           each |-> [i \in 1..Len(expressions) |-> normalize(expressions[i])]]
    /\ UNCHANGED <<literals, expressions, streamOut, srv>>
    /\ UNCHANGED <<navVars, eqVars, clickVars>>

\* stream applied to the template and iterated to its end.
Stream ==
    /\ ~streamOut.done
    /\ LET o == stream(literals, expressions)
       IN  streamOut' = [done |-> TRUE, items |-> o.items, threw |-> o.threw]
    /\ UNCHANGED <<literals, expressions, normalizeOut, srv>>
    /\ UNCHANGED <<navVars, eqVars, clickVars>>

NextNorm == Normalize \/ Stream

SpecNorm == InitNorm /\ [][NextNorm]_vars

\* ---------------------------------------------------- dispatcher (serve)
\* A route with a parameter of its own named fragment, and a route whose
\* path has no handler.
FragmentRoute == createRoute("/", <<<<"fragment", "1">>, <<"x", "1">>>>, "")
Unhandled == createRoute("/not-a-route/", <<<<"x", "1">>>>, "")
ReqRoutes == {Home, HomeX, Streaming, FragmentRoute, Unhandled}
Methods == {"GET", "POST"}

\* fetch(url) in Router.route: a GET request of the route's URL with the
\* fragment flag.
routerRequest(route) == [url |-> routeRequest(route), method |-> "GET"]

\* A request of the browser for the URL of a route.
browserRequest(route, method) ==
    [url |-> [path |-> route.path, params |-> route.params,
              hash |-> route.hash],
     method |-> method]

\* What the origin may answer to a forwarded request.
OriginResponses ==
    {[headers |-> <<<<"Content-Type", "text/javascript">>>>, body |-> "origin"],
     [headers |-> <<>>, body |-> "origin"]}

InitServe ==
    /\ srv = IdleServe
    /\ clickEvt = NoClick
    /\ literals = <<"">>
    /\ expressions = <<>>
    /\ normalizeOut = NotNormalized
    /\ streamOut = NotStreamed
    /\ currentRoute = Home
    /\ address = toString(Home)
    /\ fragmentCache = [key \in CacheKeys |-> NoOutlet]
    /\ outlets = <<0>>
    /\ children = [o \in OutletIds |-> <<>>]
    /\ calls = <<>>
    /\ eqFirst = Home
    /\ eqSecond = Home
    /\ eqOut = [ab |-> "none", ba |-> "none", aa |-> "none"]

\* serve(req) up to its first suspension: without a handler for the path
\* the request is handed to fetch; else the handler is called, it returns
\* content, and serve awaits it.
Serve(route, from, method, content) ==
    /\ srv.pc = "idle"
    /\ (from = "router") => (method = "GET")
    /\ LET req == IF from = "router" THEN routerRequest(route)
                  ELSE browserRequest(route, method)
           handler == routesGet(req.url.path)
       IN  IF handler = "undefined"
           THEN /\ content = NoContent
                /\ srv' = [srv EXCEPT !.pc = "awaitOrigin", !.from = from,
                                      !.route = route, !.req = req,
                                      !.forwarded = <<fetchRequest(req)>>]
           ELSE /\ content \in Contents
                /\ srv' = [srv EXCEPT !.pc = "awaitHandler", !.from = from,
                                      !.route = route, !.req = req,
                                      !.handlerCalls = @ + 1,
                                      !.content = content]
    /\ UNCHANGED <<literals, expressions, normalizeOut, streamOut>>
    /\ UNCHANGED <<navVars, eqVars, clickVars>>

\* `return await fetch(req)`: the origin answers and serve returns it.
OriginResponded(originResponse) ==
    /\ srv.pc = "awaitOrigin"
    /\ srv' = [srv EXCEPT !.pc = "proxied", !.response = originResponse]
    /\ UNCHANGED <<literals, expressions, normalizeOut, streamOut>>
    /\ UNCHANGED <<navVars, eqVars, clickVars>>

\* `await handler(req)` completes. A rejected Promise makes serve fail.
\* Else serve reads the fragment flag, wraps the content for a full page,
\* and returns the response around the stream of normalize(res).
HandlerAwaited ==
    /\ srv.pc = "awaitHandler"
    /\ IF srv.content.shape = "promise" /\ srv.content.fails
       THEN srv' = [srv EXCEPT !.pc = "threw"]
       ELSE LET content == awaitContent(srv.content)
                requestingFragment ==
                    searchParamsHas(srv.req.url.params, "fragment")
                res == IF requestingFragment THEN content
                       ELSE wrapContent(srv.req, content)
            IN  srv' = [srv EXCEPT
                    !.pc = "responded",
                    !.wrapArgs = IF requestingFragment THEN <<>>
                                 ELSE <<content>>,
                    !.res = res,
                    !.response = [headers |-> serveHeaders,
                                  body |-> "ReadableStream"],
                    !.stream = "readable"]
    /\ UNCHANGED <<literals, expressions, normalizeOut, streamOut>>
    /\ UNCHANGED <<navVars, eqVars, clickVars>>

\* pull that reads the iterator to its end and enqueues all it yields.
Pull_Drain ==
    /\ srv.pc = "responded"
    /\ srv.stream = "readable"
    /\ LET o == normalize(srv.res)
       IN  srv' = [srv EXCEPT
                    !.body = [i \in 1..Len(o.items) |-> encode(o.items[i])],
                    !.stream = IF o.threw THEN "errored" ELSE "closed"]
    /\ UNCHANGED <<literals, expressions, normalizeOut, streamOut>>
    /\ UNCHANGED <<navVars, eqVars, clickVars>>

\* pull(controller) of the response stream: the next item of normalize(res)
\* is encoded and enqueued; at the end of the items the stream is closed,
\* or errored when the iterator throws.
Pull ==
    /\ srv.pc = "responded"
    /\ srv.stream = "readable"
    /\ LET o == normalize(srv.res)
           n == Len(srv.body)
       IN  IF n < Len(o.items)
           THEN srv' = [srv EXCEPT !.body = Append(@, encode(o.items[n + 1]))]
           ELSE srv' = [srv EXCEPT !.stream = IF o.threw THEN "errored"
                                              ELSE "closed"]
    /\ UNCHANGED <<literals, expressions, normalizeOut, streamOut>>
    /\ UNCHANGED <<navVars, eqVars, clickVars>>

NextServe ==
    \/ \E route \in ReqRoutes, from \in {"router", "browser"},
          method \in Methods, content \in Contents \cup {NoContent} :
            Serve(route, from, method, content)
    \/ \E originResponse \in OriginResponses : OriginResponded(originResponse)
    \/ HandlerAwaited
    \/ Pull

SpecServe == InitServe /\ [][NextServe]_vars

\* The consumer of the response keeps reading, so the stream keeps calling
\* pull while it is readable, every item asked for becomes available, and
\* the Promise serve awaits settles.
SpecServeFair ==
    SpecServe /\ WF_vars(Pull) /\ WF_vars(HandlerAwaited)

\* ----------------------------------------- claims on stream normalization
\* C13: normalize yields, for a string, exactly that string; for a Promise
\* that resolves, exactly its value as one item; for a Promise that
\* rejects, no item and the failure; for a Generator and for an
\* AsyncGenerator, exactly their items in their order, and it completes
\* unless the sequence itself throws.
C13_NormalizeFourShapes ==
    normalizeOut.done =>
        /\ Len(normalizeOut.each) = Len(expressions)
        /\ \A i \in 1..Len(expressions) :
              LET content == expressions[i]
                  out == normalizeOut.each[i]
              IN  /\ (content.shape = "string") =>
                        /\ out.items = <<content.items[1]>>
                        /\ ~out.threw
                  /\ (content.shape = "promise" /\ ~content.fails) =>
                        /\ out.items = <<content.items[1]>>
                        /\ ~out.threw
                  /\ (content.shape = "promise" /\ content.fails) =>
                        /\ out.items = <<>>
                        /\ out.threw
                  /\ (content.shape \in {"generator", "asyncGenerator"}) =>
                        /\ Len(out.items) = Len(content.items)
                        /\ \A j \in 1..Len(content.items) :
                              out.items[j] = content.items[j]
                        /\ out.threw <=> content.fails

\* C13 witness: normalize has been applied to a Promise that rejects and to
\* an AsyncGenerator of MaxItems items.
C13_Witness ==
    /\ normalizeOut.done
    /\ \E i, j \in 1..Len(expressions) :
          /\ expressions[i].shape = "promise"
          /\ expressions[i].fails
          /\ normalizeOut.each[i].threw
          /\ expressions[j].shape = "asyncGenerator"
          /\ ~expressions[j].fails
          /\ Len(normalizeOut.each[j].items) = MaxItems

\* Claim helper: the items a Streamable yields when nothing fails.
ItemsOf(content) ==
    IF content.shape \in {"string", "promise"} THEN <<content.items[1]>>
    ELSE content.items

\* Claim helper: number of items the first n expressions yield together.
RECURSIVE ItemsBefore(_)
ItemsBefore(n) ==
    IF n = 0 THEN 0 ELSE ItemsBefore(n - 1) + Len(ItemsOf(expressions[n]))

\* Claim helper: no expression of the template fails.
NoneFails == \A i \in 1..Len(expressions) : ~expressions[i].fails

\* C14: stream of n literals and n-1 expressions none of which fails yields
\* literal 1, the items of expression 1 in order, literal 2, and so on, and
\* ends with literal n: literal i is the item at position i plus the number
\* of items of the expressions before it, be it empty or not, the items of
\* expression i follow it in order, and nothing else is yielded.
C14_TemplateInterleaves ==
    (streamOut.done /\ NoneFails) =>
        /\ ~streamOut.threw
        /\ Len(streamOut.items) =
              Len(literals) + ItemsBefore(Len(expressions))
        /\ \A i \in 1..Len(literals) :
              streamOut.items[i + ItemsBefore(i - 1)] = literals[i]
        /\ \A i \in 1..Len(expressions) :
              \A j \in 1..Len(ItemsOf(expressions[i])) :
                 streamOut.items[i + ItemsBefore(i - 1) + j] =
                    ItemsOf(expressions[i])[j]

\* C14 witness: a template of three literals, the second one empty, whose
\* first expression is a sequence of MaxItems items, has been streamed.
C14_Witness ==
    /\ streamOut.done
    /\ NoneFails
    /\ Len(literals) = 3
    /\ literals[2] = ""
    /\ expressions[1].shape \in {"generator", "asyncGenerator"}
    /\ Len(expressions[1].items) = MaxItems
    /\ Len(streamOut.items) >= 3 + MaxItems

\* ------------------------------------------------- claims on the dispatcher
\* Claim helper: serve has started for a path that has a handler.
Handled == srv.pc \in {"awaitHandler", "responded", "threw"}
\* Claim helper: the request carries the fragment flag.
HasFlag == \E i \in 1..Len(srv.req.url.params) :
              srv.req.url.params[i][1] = "fragment"
\* Claim helper: serve is suspended until the handler's Promise settles.
WaitsForContent ==
    /\ srv.pc = "awaitHandler"
    /\ srv.content.shape = "promise"
\* Claim helper: the items as chunks of bytes.
Chunks(items) == [i \in 1..Len(items) |-> [bytes |-> items[i]]]

\* C15 as claimed: while a full page is served for a handled path and the
\* leading literal of the page has not been emitted yet, serve is never
\* waiting for the handler's content to complete, whatever its shape.
C15_LeadingLiteralNeverWaits ==
    (Handled /\ ~HasFlag /\ srv.body = <<>>) => ~WaitsForContent

\* C15: when a full page is served for a handled path, the first chunk of
\* the body is the leading literal of the page. For a Generator or an
\* AsyncGenerator content it is emitted before the content is iterated:
\* when it is the only chunk, the stream is still open. For a Promise
\* content serve awaits the value first: while the Promise is pending there
\* is no response and nothing is emitted.
C15_LeadingLiteralFirst ==
    (Handled /\ ~HasFlag) =>
        /\ (srv.body # <<>>) => (srv.body[1] = [bytes |-> PageLiterals[1]])
        /\ (/\ srv.content.shape \in {"generator", "asyncGenerator"}
            /\ Len(srv.body) <= 1) => (srv.stream # "closed")
        /\ WaitsForContent =>
              /\ srv.response = NoResponse
              /\ srv.stream = "none"
              /\ srv.body = <<>>

\* C15 witness: a full page whose content is an AsyncGenerator with items;
\* only the leading literal has been emitted.
C15_Witness ==
    /\ srv.pc = "responded"
    /\ ~HasFlag
    /\ srv.content.shape = "asyncGenerator"
    /\ Len(srv.content.items) = MaxItems
    /\ srv.body = <<[bytes |-> PageLiterals[1]]>>
    /\ srv.stream = "readable"

\* Claim helper: the body the response has when its stream is closed, for
\* content that has been awaited.
FullPageOf(content) ==
    <<[bytes |-> PageLiterals[1]]>> \o Chunks(ItemsOf(content))
        \o <<[bytes |-> PageLiterals[2]]>>
\* Claim helper: s is a prefix of t.
IsPrefix(s, t) ==
    /\ Len(s) <= Len(t)
    /\ \A i \in 1..Len(s) : s[i] = t[i]

\* C16: for a request whose path has a handler the handler is called
\* exactly once. With the fragment flag in the query the page wrapper is
\* not called and the body is the items of the handler's content, chunk by
\* chunk; without the flag the wrapper is called once, with that content,
\* and the body is the page around the items of the content. The body is
\* complete when the stream is closed and a prefix of it before.
C16_FragmentOrWrappedPage ==
    Handled =>
        /\ srv.handlerCalls = 1
        /\ (srv.pc = "responded") =>
              LET content == IF srv.content.shape = "promise"
                             THEN [srv.content EXCEPT !.shape = "string"]
                             ELSE srv.content
                  expected == IF HasFlag THEN Chunks(ItemsOf(content))
                              ELSE FullPageOf(content)
              IN  /\ srv.wrapArgs = IF HasFlag THEN <<>> ELSE <<content>>
                  /\ IsPrefix(srv.body, expected)
                  /\ (srv.stream = "closed") => (srv.body = expected)
                  /\ (srv.stream = "errored") => srv.content.fails

\* C16 witness: a fragment request for content of MaxItems items has been
\* answered and its stream is closed.
C16_Witness ==
    /\ srv.pc = "responded"
    /\ HasFlag
    /\ srv.from = "router"
    /\ srv.stream = "closed"
    /\ Len(srv.body) = MaxItems
    /\ srv.wrapArgs = <<>>

\* C17: every response serve returns for a handled path has the header
\* Content-Type: text/html, and nothing else, and a ReadableStream as body,
\* for every shape of content and with or without the fragment flag.
C17_HtmlStreamResponse ==
    (Handled /\ srv.pc = "responded") =>
        /\ srv.response.headers = <<<<"Content-Type", "text/html">>>>
        /\ srv.response.body = "ReadableStream"
        /\ srv.stream \in {"readable", "closed", "errored"}

\* C17 witness: a full page around a string content has been served and
\* its stream is closed.
C17_Witness ==
    /\ srv.pc = "responded"
    /\ ~HasFlag
    /\ srv.content.shape = "string"
    /\ srv.stream = "closed"
    /\ srv.response.body = "ReadableStream"

\* Claim helper: the parameters that are not named fragment, in order.
OwnParams(params) == SelectSeq(params, LAMBDA e : e[1] # "fragment")

\* C18: for a request whose path has no handler, with or without the
\* fragment flag, serve hands the request it was given to fetch as it is,
\* once, calls no handler and no page wrapper, builds no stream, and
\* returns what the origin answered.
C18_UnhandledForwarded ==
    (srv.pc # "idle" /\ srv.req.url.path \notin HandledPaths) =>
        /\ srv.pc \in {"awaitOrigin", "proxied"}
        /\ srv.forwarded = <<srv.req>>
        /\ srv.handlerCalls = 0
        /\ srv.content = NoContent
        /\ srv.wrapArgs = <<>>
        /\ srv.stream = "none"
        /\ srv.body = <<>>
        /\ (srv.pc = "awaitOrigin") => (srv.response = NoResponse)
        /\ (srv.pc = "proxied") =>
              /\ srv.response \in OriginResponses
              /\ srv.response.body # "ReadableStream"

\* C18 witness: a POST request without the flag for a path without handler
\* has been forwarded and answered by the origin.
C18_Witness ==
    /\ srv.pc = "proxied"
    /\ srv.req.url.path = "/not-a-route/"
    /\ srv.req.method = "POST"
    /\ ~HasFlag
    /\ srv.forwarded = <<srv.req>>

\* ---------------------------------------- claims on the fragment response
\* C19: a navigate call whose fragment response has a Content-Type that is
\* not exactly text/html fails in the resolver: no content is built from
\* the body, the call has thrown, it has issued the one request and no
\* other, it has created no outlet, and none of its nodes is a child of any
\* outlet. A response of exactly text/html does not fail this way.
C19_ContentTypeMismatchFails ==
    \A n \in 1..Len(calls) :
        /\ (calls[n].contentType \notin {"none", "text/html"}) =>
              /\ calls[n].pc = "threwContentType"
              /\ calls[n].kind = "none"
              /\ calls[n].produced = <<>>
              /\ Len(calls[n].requests) = 1
              /\ calls[n].newOutlet = NoOutlet
              /\ n \notin Range(outlets)
              /\ \A o \in OutletIds : \A i \in 1..Len(children[o]) :
                    children[o][i][1] # n
        /\ (calls[n].contentType = "text/html") =>
              calls[n].pc \in {"streaming", "returned", "threwStream"}

\* C19 witness: a response of text/html with a charset parameter has made
\* the call fail; the outlet it would have replaced is still in place.
C19_Witness ==
    \E n \in 1..Len(calls) :
        /\ calls[n].contentType = "text/html; charset=utf-8"
        /\ calls[n].pc = "threwContentType"
        /\ calls[n].oldOutlet \in Range(outlets)
        /\ Len(calls[n].requests) = 1

CachedKeys == {key \in CacheKeys : fragmentCache[key] # NoOutlet}

\* C21: the outlet cache never evicts: a canonical route string that has an
\* entry keeps having one in every later state, so the set of cached keys
\* only grows; a key has one entry, the outlet stored last.
C21_CacheNeverEvicts ==
    [][\A key \in CacheKeys :
          (fragmentCache[key] # NoOutlet) => (fragmentCache'[key] # NoOutlet)
      ]_vars

\* C21 witness: MaxCalls navigations have run and two routes are cached.
C21_Witness ==
    /\ Len(calls) = MaxCalls
    /\ Cardinality(CachedKeys) >= 2
    /\ \A key \in CachedKeys : fragmentCache[key] \in OutletIds

\* Claim helper: the route an outlet was displayed or created for: outlet 0
\* is the one of the served document, outlet n the one call n created.
OutletRoute(o) == IF o = 0 THEN Home ELSE calls[o].route

\* C22: every cache entry maps a canonical route string to an outlet that
\* was displayed or created for the route of that string, so no outlet is
\* cached under the key of another route, and no outlet is cached under two
\* keys.
C22_CacheEntryOfOwnRoute ==
    /\ \A key \in CacheKeys :
          (fragmentCache[key] # NoOutlet) =>
              (toString(OutletRoute(fragmentCache[key])) = key)
    /\ \A key1, key2 \in CacheKeys :
          (/\ fragmentCache[key1] # NoOutlet
           /\ fragmentCache[key1] = fragmentCache[key2]) => (key1 = key2)

\* Claim helper: every navigate call so far has completed without failure.
Idle ==
    \A n \in 1..Len(calls) :
        calls[n].pc \in {"returnedNoOp", "returnedCached", "returned"}

\* C23: when every navigate call has completed without failure, the outlet
\* in the document is the outlet that was displayed or created for
\* currentRoute.
C23_IdleViewIsCurrentRoute ==
    (Idle /\ outlets # <<>>) =>
        /\ Len(outlets) = 1
        /\ OutletRoute(outlets[1]) = currentRoute

\* C24: a navigate call whose route comparison fails with the length
\* mismatch changes nothing: currentRoute is what it was before the call,
\* the call updates no history entry, and the cache, the outlets and their
\* children are what they were.
C24_LengthMismatchChangesNothing ==
    [][(Starts /\ Started.pc = "threwZip") =>
          /\ currentRoute' = currentRoute
          /\ Started.hist = <<>>
          /\ fragmentCache' = fragmentCache
          /\ outlets' = outlets
          /\ children' = children
      ]_vars

\* C26: a router that has exactly one outlet inside it has exactly one
\* after every step, be it a navigate call that hits or misses the cache or
\* fails, a response, or a step of a stream.
C26_ExactlyOneOutlet ==
    [][(Len(outlets) = 1) => (Len(outlets') = 1)]_vars

\* C26 witness: a call has missed the cache and returned, another has
\* failed at its request, a third has hit the cache; one outlet is in the
\* router.
C26_Witness ==
    /\ Len(outlets) = 1
    /\ \E n1, n2, n3 \in 1..Len(calls) :
          /\ calls[n1].pc = "returned"
          /\ calls[n2].pc = "threwFetch"
          /\ calls[n3].pc = "returnedCached"

\* C27: for two routes on which routeEquals does not fail, it is true
\* exactly when the canonical strings of the routes are equal, in both
\* orders of the comparison: the no-op test of navigate and the key of the
\* cache tell the same routes apart.
C27_EqualsIffSameCanonical ==
    (eqOut.ab \in {"true", "false"}) =>
        /\ (eqOut.ab = "true") <=> (toString(eqFirst) = toString(eqSecond))
        /\ (eqOut.ba = "true") <=> (toString(eqSecond) = toString(eqFirst))

\* C27 witness: two routes with the same path and the same two parameters
\* that differ in the hash only: not equal, and two canonical strings.
C27_Witness ==
    /\ eqOut.ab = "false"
    /\ eqFirst.path = eqSecond.path
    /\ Len(eqFirst.params) = 2
    /\ eqFirst.params = eqSecond.params
    /\ eqFirst.hash # eqSecond.hash
    /\ toString(eqFirst) # toString(eqSecond)

\* ------------------------------------------------------ click handling
\* The routes the links that are clicked lead to.
ClickRoutes == {Home, Streaming}

\* The innermost targets of the click events: a text node, an element that
\* is no anchor, an anchor without href attribute, an anchor with an empty
\* href, and anchors with the URL of a route as href.
ClickTargets ==
    {[node |-> "Text", tagName |-> "", href |-> "null", route |-> Home],
     [node |-> "Element", tagName |-> "DIV", href |-> "null", route |-> Home],
     [node |-> "Element", tagName |-> "A", href |-> "null", route |-> Home],
     [node |-> "Element", tagName |-> "A", href |-> "", route |-> Home]}
        \cup {[node |-> "Element", tagName |-> "A", href |-> "url",
               route |-> route] : route \in ClickRoutes}

\* A test that takes every element for an anchor.
isAnchor_AnyElement(target) == target.node = "Element"

\* `target instanceof Element` and `target.tagName === 'A'`
isAnchor(target) == target.node = "Element" /\ target.tagName = "A"

\* `!href`: getAttribute has returned null or the empty string.
noHref(href) == href \in {"null", ""}

\* onDescendantClicked: a click on anything but an anchor is ignored; on an
\* anchor the default action is prevented, then a missing href throws, and
\* else navigate is called with the route of the href.
onDescendantClicked(target) ==
    LET evt == [node |-> target.node, tagName |-> target.tagName,
                href |-> target.href, defaultPrevented |-> FALSE,
                outcome |-> "returned"]
    IN  IF ~isAnchor(target)
        THEN /\ clickEvt' = evt
             /\ UNCHANGED <<navVars, eqVars, serverVars>>
        ELSE IF noHref(target.href)
        THEN /\ clickEvt' = [evt EXCEPT !.defaultPrevented = TRUE,
                                        !.outcome = "threwNoHref"]
             /\ UNCHANGED <<navVars, eqVars, serverVars>>
        ELSE /\ clickEvt' = [evt EXCEPT !.defaultPrevented = TRUE]
             /\ Navigate(target.route, address)

NextClick ==
    \/ \E target \in ClickTargets : onDescendantClicked(target)
    \/ \E n \in 1..MaxCalls : FetchRejected(n)
    \/ \E n \in 1..MaxCalls, ct \in ContentTypes, k \in 0..MaxNodes :
            RouteResponded(n, ct, k)
    \/ \E n \in 1..MaxCalls : StreamNext(n)
    \/ \E n \in 1..MaxCalls : StreamDone(n)
    \/ \E n \in 1..MaxCalls : StreamFailed(n)

SpecClick == Init /\ [][NextClick]_vars

\* C28: a click on an anchor that has no href, or an empty one, prevents
\* the default action and then fails, and leaves currentRoute, the address,
\* the cache, the outlets and the navigate calls as they were; a click on
\* anything that is not an anchor element prevents nothing, fails nothing
\* and leaves them as they were too.
C28_ClickWithoutHrefOrAnchor ==
    [][(clickEvt' # clickEvt) =>
          /\ (/\ clickEvt'.node = "Element"
              /\ clickEvt'.tagName = "A"
              /\ clickEvt'.href \in {"null", ""}) =>
                 /\ clickEvt'.defaultPrevented
                 /\ clickEvt'.outcome = "threwNoHref"
                 /\ UNCHANGED navVars
          /\ (clickEvt'.node # "Element" \/ clickEvt'.tagName # "A") =>
                 /\ ~clickEvt'.defaultPrevented
                 /\ clickEvt'.outcome = "returned"
                 /\ UNCHANGED navVars
      ]_vars

\* C28 witness: after a navigation that has cached an outlet, the last
\* click was on an anchor with an empty href: it has failed.
C28_Witness ==
    /\ clickEvt.tagName = "A"
    /\ clickEvt.href = ""
    /\ clickEvt.defaultPrevented
    /\ clickEvt.outcome = "threwNoHref"
    /\ Len(calls) >= 1
    /\ CachedKeys # {}

\* Claim helper: the chunks of the items the response stream is built on,
\* up to the failure of a content that fails.
ExpectedChunks ==
    IF HasFlag THEN Chunks(ItemsOf(srv.content))
    ELSE IF srv.content.fails
    THEN <<[bytes |-> PageLiterals[1]]>> \o Chunks(ItemsOf(srv.content))
    ELSE FullPageOf(srv.content)

\* C25: every step of the response stream is one pull: it either enqueues
\* exactly one chunk, the encoding of the next item in item order, and
\* leaves the stream readable, or it enqueues nothing and closes the
\* stream, when all items have been enqueued and the content has completed,
\* or errors it, when the content fails. A closed stream does not change
\* any more. When the consumer keeps pulling, the stream of a content that
\* does not fail is eventually closed.
C25_PullDrivenInOrder ==
    /\ [][(srv.pc = "responded" /\ srv' # srv) =>
             /\ srv.stream = "readable"
             /\ \/ /\ srv'.stream = "readable"
                   /\ Len(srv'.body) = Len(srv.body) + 1
                   /\ IsPrefix(srv.body, srv'.body)
                   /\ Len(srv'.body) <= Len(ExpectedChunks)
                   /\ srv'.body[Len(srv'.body)] =
                         ExpectedChunks[Len(srv'.body)]
                \/ /\ srv'.stream = "closed"
                   /\ srv'.body = srv.body
                   /\ srv.body = ExpectedChunks
                   /\ ~srv.content.fails
                \/ /\ srv'.stream = "errored"
                   /\ srv'.body = srv.body
                   /\ srv.content.fails
         ]_vars
    /\ (srv.pc = "responded" /\ ~srv.content.fails) ~> (srv.stream = "closed")

\* C25 witness: the stream of a full page around an AsyncGenerator of
\* MaxItems items is closed, with one chunk per item and literal.
C25_Witness ==
    /\ srv.pc = "responded"
    /\ srv.from = "browser"
    /\ srv.content.shape = "asyncGenerator"
    /\ ~srv.content.fails
    /\ srv.stream = "closed"
    /\ Len(srv.body) = MaxItems + 2

====
